---- MODULE Spec2Model ----
(***************************************************************************)
(* Metrics-query dispatch layer of pkg/api/metrics.go: the two handlers    *)
(* QueryMetricsV2 (POST /api/ds/query) and QueryMetrics                    *)
(* (POST /api/tsdb/query), stepped through their code, with the            *)
(* data-source cache, the tsdb executor and the expression evaluator as    *)
(* nondeterministic collaborators whose answers stay fixed once given.     *)
(***************************************************************************)
EXTENDS Integers, Sequences, FiniteSets, TLC

\* ---------------------------------------------------------------- bounds
MaxQueries == 2

\* ------------------------------------------------------------- vocabulary
DatasourceName == "__expr__"
OtherName == "prometheus"
Names == {DatasourceName, OtherName}

NoId == 0
DsIds == {1, 2}
NilDs == 0

NoRef == ""
RefIds == {"A", "B"}

NoErr == ""
Errs == {"e1", "e2"}
BackendMsgs == {"", "m"}

Endpoints == {"v2", "legacy"}
Outcomes == {"ok", "denied", "notfound", "other"}

\* a numeric field of the bag that is absent (MustInt64 falls back)
NoNum == 0
DefaultMaxDataPoints == 100
DefaultIntervalMs == 1000

\* one raw sub-query of dtos.MetricRequest.Queries (a simplejson bag)
\* refId is either absent or names an id other than the default "A"
RawQueries ==
  [name : Names, dsId : DsIds \cup {NoId}, refId : {NoRef, "B"},
   maxDataPoints : {NoNum}, intervalMs : {NoNum}]

\* the same bags with maxDataPoints and intervalMs present or absent
RichQueries ==
  [name : Names, dsId : DsIds \cup {NoId}, refId : {NoRef, "B"},
   maxDataPoints : {NoNum, 50}, intervalMs : {NoNum, 500}]

RECURSIVE SeqsUpTo(_, _)
SeqsUpTo(S, n) ==
  IF n = 0 THEN {<<>>}
  ELSE LET shorter == SeqsUpTo(S, n - 1)
       IN shorter \cup {Append(s, x) : s \in {t \in shorter : Len(t) = n - 1}, x \in S}

Batches == SeqsUpTo(RawQueries, MaxQueries)
RichBatches == SeqsUpTo(RichQueries, MaxQueries)

\* tsdb.Response: Message and Results, a map from reference id to result
NoResults == [r \in {} |-> [error |-> NoErr, errorString |-> ""]]
BackendResults ==
  UNION {[S -> [error : Errs \cup {NoErr}, errorString : {""}]] : S \in SUBSET RefIds}
NilResp == [message |-> "", results |-> NoResults]
UnknownOut == [kind |-> "unknown", message |-> "", results |-> NoResults]
BackendOuts ==
  {[kind |-> "fatal", message |-> "", results |-> NoResults]}
  \cup [kind : {"ok"}, message : BackendMsgs, results : BackendResults]

NoResponse == [status |-> 0, message |-> "", results |-> NoResults]

VARIABLES
  endpoint, queries, exprEnabled,
  cache, backendOut,
  pc, i, hasExpr, ds, request, resp, backendErr, lookupOut, lookupId, response,
  resolverCalls, executorCalls, evaluatorCalls, sent,
  pass, prev, prevEndpoint

vars == <<endpoint, queries, exprEnabled, cache, backendOut,
          pc, i, hasExpr, ds, request, resp, backendErr, lookupOut, lookupId,
          response, resolverCalls, executorCalls, evaluatorCalls, sent,
          pass, prev, prevEndpoint>>

envVars == <<endpoint, queries, exprEnabled, pass, prev, prevEndpoint>>
counters == <<resolverCalls, executorCalls, evaluatorCalls>>

\* --------------------------------------------------------------- helpers
Error(status, message) == [status |-> status, message |-> message, results |-> NoResults]

EmptyBatchErrorAs500 == Error(500, "No queries found in query")

EmptyBatchError == Error(400, "No queries found in query")

\* hs.DatasourceCache.GetDatasource: the answers the cache may give for id
GetDatasource(id) == IF cache[id] = "unknown" THEN Outcomes ELSE {cache[id]}

\* tsdb.HandleRequest / expr.WrapTransformData: the answers of backend b
CallBackend(b) == IF backendOut[b].kind = "unknown" THEN BackendOuts ELSE {backendOut[b]}

V2ResolveErrorNoNotFound(out) ==
  IF out = "denied" THEN Error(403, "Access denied to data source")
  ELSE Error(500, "Unable to load data source metadata")

V2ResolveError(out) ==
  IF out = "denied" THEN Error(403, "Access denied to data source")
  ELSE IF out = "notfound" THEN Error(400, "Invalid data source ID")
  ELSE Error(500, "Unable to load data source metadata")

LegacyResolveError(out) ==
  IF out = "denied" THEN Error(403, "Access denied to datasource")
  ELSE Error(500, "Unable to load datasource meta data")

ShouldResolveEveryQuery(idx, expr) == ~expr

ShouldResolveAtSecond(idx, expr) == idx = 2 /\ ~expr

ShouldResolve(idx, expr) == idx = 1 /\ ~expr

NormalizeQuerySwappedDefaults(query, source) ==
  [RefId |-> IF query.refId = NoRef THEN "A" ELSE query.refId,
   MaxDataPoints |-> IF query.maxDataPoints = NoNum THEN DefaultIntervalMs
                     ELSE query.maxDataPoints,
   IntervalMs |-> IF query.intervalMs = NoNum THEN DefaultMaxDataPoints
                  ELSE query.intervalMs,
   Model |-> query,
   DataSource |-> source]

NormalizeQueryOwnSource(query, source) ==
  [RefId |-> IF query.refId = NoRef THEN "A" ELSE query.refId,
   MaxDataPoints |-> IF query.maxDataPoints = NoNum THEN DefaultMaxDataPoints
                     ELSE query.maxDataPoints,
   IntervalMs |-> IF query.intervalMs = NoNum THEN DefaultIntervalMs
                  ELSE query.intervalMs,
   Model |-> query,
   DataSource |-> query.dsId]

NormalizeQuery(query, source) ==
  [RefId |-> IF query.refId = NoRef THEN "A" ELSE query.refId,
   MaxDataPoints |-> IF query.maxDataPoints = NoNum THEN DefaultMaxDataPoints
                     ELSE query.maxDataPoints,
   IntervalMs |-> IF query.intervalMs = NoNum THEN DefaultIntervalMs
                  ELSE query.intervalMs,
   Model |-> query,
   DataSource |-> source]

SeenExprLastOnly(flag, name) == name = DatasourceName

\* hasExpr after a sub-query named name has been looked at
SeenExpr(flag, name) == flag \/ name = DatasourceName

LoopDoneAtFirst(idx, qs) == TRUE

\* the range over reqDTO.Queries ends after its last element
LoopDone(idx, qs) == idx = Len(qs)

IsFatalIgnored(out) == FALSE

\* err != nil after the backend call
IsFatal(out) == out.kind = "fatal"

\* every order in which a range over the map S may visit its keys
Orders(S) ==
  {o \in [1..Cardinality(S) -> S] : \A k \in S : \E j \in 1..Cardinality(S) : o[j] = k}

RECURSIVE RangeResultsStatusOfLast(_, _, _)
RangeResultsStatusOfLast(order, r, statusCode) ==
  IF order = <<>> THEN [statusCode |-> statusCode, resp |-> r]
  ELSE LET k == Head(order)
           res == r.results[k]
       IN IF res.error # NoErr
          THEN RangeResultsStatusOfLast(Tail(order),
                            [message |-> res.error,
                             results |-> [r.results EXCEPT ![k].errorString = res.error]],
                            400)
          ELSE RangeResultsStatusOfLast(Tail(order), r, 200)

RECURSIVE RangeResultsNoMessage(_, _, _)
RangeResultsNoMessage(order, r, statusCode) ==
  IF order = <<>> THEN [statusCode |-> statusCode, resp |-> r]
  ELSE LET k == Head(order)
           res == r.results[k]
       IN IF res.error # NoErr
          THEN RangeResultsNoMessage(Tail(order),
                            [message |-> r.message,
                             results |-> [r.results EXCEPT ![k].errorString = res.error]],
                            400)
          ELSE RangeResultsNoMessage(Tail(order), r, statusCode)

RECURSIVE RangeResultsNoErrorString(_, _, _)
RangeResultsNoErrorString(order, r, statusCode) ==
  IF order = <<>> THEN [statusCode |-> statusCode, resp |-> r]
  ELSE LET k == Head(order)
           res == r.results[k]
       IN IF res.error # NoErr
          THEN RangeResultsNoErrorString(Tail(order),
                            [message |-> res.error, results |-> r.results],
                            400)
          ELSE RangeResultsNoErrorString(Tail(order), r, statusCode)

RECURSIVE RangeResults(_, _, _)
RangeResults(order, r, statusCode) ==
  IF order = <<>> THEN [statusCode |-> statusCode, resp |-> r]
  ELSE LET k == Head(order)
           res == r.results[k]
       IN IF res.error # NoErr
          THEN RangeResults(Tail(order),
                            [message |-> res.error,
                             results |-> [r.results EXCEPT ![k].errorString = res.error]],
                            400)
          ELSE RangeResults(Tail(order), r, statusCode)

Envelope(statusCode, r) == [status |-> statusCode, message |-> r.message, results |-> r.results]

\* ------------------------------------------------------------------ Init
Init ==
  /\ endpoint \in Endpoints
  /\ queries \in Batches
  /\ exprEnabled \in BOOLEAN
  /\ cache = [d \in DsIds |-> "unknown"]
  /\ backendOut = [b \in {"executor", "evaluator"} |-> UnknownOut]
  /\ pc = "start"
  /\ i = 1
  /\ hasExpr = FALSE
  /\ ds = NilDs
  /\ request = <<>>
  /\ resp = NilResp
  /\ backendErr = "uncalled"
  /\ lookupOut = "none"
  /\ lookupId = NoId
  /\ response = NoResponse
  /\ resolverCalls = 0
  /\ executorCalls = 0
  /\ evaluatorCalls = 0
  /\ sent = [called |-> FALSE, ds |-> NilDs, request |-> <<>>]
  /\ pass = 1
  /\ prev = NoResponse
  /\ prevEndpoint = "none"

Finish(r) ==
  /\ response' = r
  /\ pc' = "done"

\* ------------------------------------------------------- QueryMetricsV2
V2Begin ==
  /\ pc = "start"
  /\ endpoint = "v2"
  /\ IF Len(queries) = 0
     THEN Finish(EmptyBatchError)
     ELSE /\ pc' = "v2loop"
          /\ UNCHANGED response
  /\ UNCHANGED <<envVars, cache, backendOut, i, hasExpr, ds, request, resp,
                 backendErr, lookupOut, lookupId, counters, sent>>

V2LoopIter ==
  /\ pc = "v2loop"
  /\ i <= Len(queries)
  /\ LET query == queries[i]
         expr == SeenExpr(hasExpr, query.name)
         next == IF LoopDone(i, queries) THEN "v2dispatch" ELSE "v2loop"
     IN /\ hasExpr' = expr
        /\ IF query.dsId = NoId
           THEN /\ Finish(Error(400, "Query missing data source ID"))
                /\ UNCHANGED <<cache, i, ds, request, lookupOut, lookupId, resolverCalls>>
           ELSE IF ShouldResolve(i, expr)
           THEN \E out \in GetDatasource(query.dsId) :
                  /\ cache' = [cache EXCEPT ![query.dsId] = out]
                  /\ resolverCalls' = resolverCalls + 1
                  /\ lookupOut' = out
                  /\ lookupId' = query.dsId
                  /\ IF out # "ok"
                     THEN /\ Finish(V2ResolveError(out))
                          /\ UNCHANGED <<i, ds, request>>
                     ELSE /\ ds' = query.dsId
                          /\ request' = Append(request, NormalizeQuery(query, query.dsId))
                          /\ i' = i + 1
                          /\ pc' = next
                          /\ UNCHANGED response
           ELSE /\ request' = Append(request, NormalizeQuery(query, ds))
                /\ i' = i + 1
                /\ pc' = next
                /\ UNCHANGED <<cache, ds, lookupOut, lookupId, resolverCalls, response>>
  /\ UNCHANGED <<envVars, backendOut, resp, backendErr, executorCalls, evaluatorCalls, sent>>

V2Dispatch ==
  /\ pc = "v2dispatch"
  /\ IF ~hasExpr
     THEN \E out \in CallBackend("executor") :
            /\ backendOut' = [backendOut EXCEPT !["executor"] = out]
            /\ executorCalls' = executorCalls + 1
            /\ sent' = [called |-> TRUE, ds |-> ds, request |-> request]
            /\ UNCHANGED evaluatorCalls
            /\ IF IsFatal(out)
               THEN /\ backendErr' = "error"
                    /\ Finish(Error(500, "Metric request error"))
                    /\ UNCHANGED resp
               ELSE /\ backendErr' = "nil"
                    /\ resp' = [message |-> out.message, results |-> out.results]
                    /\ pc' = "v2aggregate"
                    /\ UNCHANGED response
     ELSE IF ~exprEnabled
     THEN /\ Finish(Error(404, "Expressions feature toggle is not enabled"))
          /\ UNCHANGED <<backendOut, counters, sent, backendErr, resp>>
     ELSE \E out \in CallBackend("evaluator") :
            /\ backendOut' = [backendOut EXCEPT !["evaluator"] = out]
            /\ evaluatorCalls' = evaluatorCalls + 1
            /\ sent' = [called |-> TRUE, ds |-> NilDs, request |-> request]
            /\ UNCHANGED executorCalls
            /\ IF IsFatal(out)
               THEN /\ backendErr' = "error"
                    /\ Finish(Error(500, "Transform request error"))
                    /\ UNCHANGED resp
               ELSE /\ backendErr' = "nil"
                    /\ resp' = [message |-> out.message, results |-> out.results]
                    /\ pc' = "v2aggregate"
                    /\ UNCHANGED response
  /\ UNCHANGED <<envVars, cache, i, hasExpr, ds, request, lookupOut, lookupId,
                 resolverCalls>>

V2Aggregate ==
  /\ pc = "v2aggregate"
  /\ \E order \in Orders(DOMAIN resp.results) :
       LET a == RangeResults(order, resp, 200)
       IN /\ resp' = a.resp
          /\ Finish(Envelope(a.statusCode, a.resp))
  /\ UNCHANGED <<envVars, cache, backendOut, i, hasExpr, ds, request,
                 backendErr, lookupOut, lookupId, counters, sent>>

\* --------------------------------------------------------- QueryMetrics
LegacyBegin ==
  /\ pc = "start"
  /\ endpoint = "legacy"
  /\ IF Len(queries) = 0
     THEN Finish(EmptyBatchError)
     ELSE IF queries[1].dsId = NoId
     THEN Finish(Error(400, "Query missing datasourceId"))
     ELSE /\ pc' = "legacyresolve"
          /\ UNCHANGED response
  /\ UNCHANGED <<envVars, cache, backendOut, i, hasExpr, ds, request, resp,
                 backendErr, lookupOut, lookupId, counters, sent>>

LegacyResolve ==
  /\ pc = "legacyresolve"
  /\ \E out \in GetDatasource(queries[1].dsId) :
       /\ cache' = [cache EXCEPT ![queries[1].dsId] = out]
       /\ resolverCalls' = resolverCalls + 1
       /\ lookupOut' = out
       /\ lookupId' = queries[1].dsId
       /\ IF out # "ok"
          THEN /\ Finish(LegacyResolveError(out))
               /\ UNCHANGED ds
          ELSE /\ ds' = queries[1].dsId
               /\ pc' = "legacybuild"
               /\ UNCHANGED response
  /\ UNCHANGED <<envVars, backendOut, i, hasExpr, request, resp, backendErr,
                 executorCalls, evaluatorCalls, sent>>

LegacyBuild ==
  /\ pc = "legacybuild"
  /\ request' = [p \in 1..Len(queries) |-> NormalizeQuery(queries[p], ds)]
  /\ pc' = "legacydispatch"
  /\ UNCHANGED <<envVars, cache, backendOut, i, hasExpr, ds, resp, backendErr,
                 lookupOut, lookupId, response, counters, sent>>

LegacyDispatch ==
  /\ pc = "legacydispatch"
  /\ \E out \in CallBackend("executor") :
       /\ backendOut' = [backendOut EXCEPT !["executor"] = out]
       /\ executorCalls' = executorCalls + 1
       /\ sent' = [called |-> TRUE, ds |-> ds, request |-> request]
       /\ IF IsFatal(out)
          THEN /\ backendErr' = "error"
               /\ Finish(Error(500, "Metric request error"))
               /\ UNCHANGED resp
          ELSE /\ backendErr' = "nil"
               /\ resp' = [message |-> out.message, results |-> out.results]
               /\ pc' = "legacyaggregate"
               /\ UNCHANGED response
  /\ UNCHANGED <<envVars, cache, i, hasExpr, ds, request, lookupOut, lookupId,
                 resolverCalls, evaluatorCalls>>

LegacyAggregate ==
  /\ pc = "legacyaggregate"
  /\ \E order \in Orders(DOMAIN resp.results) :
       LET a == RangeResults(order, resp, 200)
       IN /\ resp' = a.resp
          /\ Finish(Envelope(a.statusCode, a.resp))
  /\ UNCHANGED <<envVars, cache, backendOut, i, hasExpr, ds, request,
                 backendErr, lookupOut, lookupId, counters, sent>>

\* ------------------------------------------------------------ the caller
\* the same batch is posted a second time, to either endpoint, while the
\* cache and the backends answer as they did before
Repeat ==
  /\ pc = "done"
  /\ pass = 1
  /\ pass' = 2
  /\ prev' = response
  /\ prevEndpoint' = endpoint
  /\ endpoint' \in Endpoints
  /\ pc' = "start"
  /\ i' = 1
  /\ hasExpr' = FALSE
  /\ ds' = NilDs
  /\ request' = <<>>
  /\ resp' = NilResp
  /\ backendErr' = "uncalled"
  /\ lookupOut' = "none"
  /\ lookupId' = NoId
  /\ response' = NoResponse
  /\ resolverCalls' = 0
  /\ executorCalls' = 0
  /\ evaluatorCalls' = 0
  /\ sent' = [called |-> FALSE, ds |-> NilDs, request |-> <<>>]
  /\ UNCHANGED <<queries, exprEnabled, cache, backendOut>>

Next ==
  \/ V2Begin
  \/ V2LoopIter
  \/ V2Dispatch
  \/ V2Aggregate
  \/ LegacyBegin
  \/ LegacyResolve
  \/ LegacyBuild
  \/ LegacyDispatch
  \/ LegacyAggregate
  \/ Repeat

Spec == Init /\ [][Next]_vars

\* the handlers on bags whose numeric fields may be present, against a
\* cache that resolves every id and backends that answer without error
AnswerOk ==
  [kind |-> "ok", message |-> "",
   results |-> [k \in RefIds |-> [error |-> IF k = "A" THEN "e1" ELSE NoErr,
                                  errorString |-> ""]]]

NormInit ==
  /\ endpoint \in Endpoints
  /\ queries \in RichBatches
  /\ exprEnabled \in BOOLEAN
  /\ cache = [d \in DsIds |-> "ok"]
  /\ backendOut = [b \in {"executor", "evaluator"} |-> AnswerOk]
  /\ pc = "start"
  /\ i = 1
  /\ hasExpr = FALSE
  /\ ds = NilDs
  /\ request = <<>>
  /\ resp = NilResp
  /\ backendErr = "uncalled"
  /\ lookupOut = "none"
  /\ lookupId = NoId
  /\ response = NoResponse
  /\ resolverCalls = 0
  /\ executorCalls = 0
  /\ evaluatorCalls = 0
  /\ sent = [called |-> FALSE, ds |-> NilDs, request |-> <<>>]
  /\ pass = 1
  /\ prev = NoResponse
  /\ prevEndpoint = "none"

NormSpec == NormInit /\ [][Next]_vars

TypeOK ==
  /\ endpoint \in Endpoints
  /\ queries \in Batches
  /\ pc \in {"start", "v2loop", "v2dispatch", "v2aggregate", "legacyresolve",
             "legacybuild", "legacydispatch", "legacyaggregate", "done"}
  /\ response.status \in {0, 200, 400, 403, 404, 500}
  /\ pass \in {1, 2}

\* ------------------------------------------------------------ properties
HasSentinel(qs) == \E p \in 1..Len(qs) : qs[p].name = DatasourceName
MissingId(qs) == \E p \in 1..Len(qs) : qs[p].dsId = NoId
NoCollaboratorInvoked == resolverCalls = 0 /\ executorCalls = 0 /\ evaluatorCalls = 0
SomeSubError == \E k \in DOMAIN resp.results : resp.results[k].error # NoErr

\* C1: on QueryMetricsV2, a non-empty batch with a sub-query lacking its
\* data-source id, at any position, is answered 400 "Query missing data
\* source ID" whatever the resolver returns for the other sub-queries.
C1_MissingIdIs400 ==
  (endpoint = "v2" /\ pc = "done" /\ Len(queries) > 0 /\ MissingId(queries))
    => response = Error(400, "Query missing data source ID")

\* C2: on QueryMetricsV2, a batch with a sentinel sub-query at any position
\* never has the data-source resolver invoked.
C2_ExprBatchNeverResolves ==
  (endpoint = "v2" /\ HasSentinel(queries)) => resolverCalls = 0

\* C3: on QueryMetricsV2, a batch with a sentinel sub-query handled while the
\* expression feature is disabled is answered 404 with no collaborator
\* invoked (stated on batches whose sub-queries all carry an id, so that the
\* 400 of a missing id is not what is observed).
C3_DisabledIs404Untouched ==
  (endpoint = "v2" /\ pc = "done" /\ HasSentinel(queries) /\ ~MissingId(queries)
     /\ ~exprEnabled)
    => (response.status = 404 /\ NoCollaboratorInvoked)

\* C4: for a batch without sentinel and the same resolver and executor
\* outcomes, QueryMetrics and QueryMetricsV2 return the same status code; in
\* particular a data source that is not found is answered 400 on both.
C4_SameStatusOnBothEndpoints ==
  (pc = "done" /\ ~HasSentinel(queries))
    => /\ (pass = 2 /\ prevEndpoint # endpoint) => response.status = prev.status
       /\ lookupOut = "notfound" => response.status = 400

\* C5: on QueryMetricsV2, a failed resolution of a direct batch is answered
\* by failure class alone: 403 access denied, 400 not found, 500 otherwise.
C5_ResolveFailureStatus ==
  (endpoint = "v2" /\ pc = "done" /\ ~HasSentinel(queries)
     /\ lookupOut \in {"denied", "notfound", "other"})
    => response.status = (CASE lookupOut = "denied" -> 403
                            [] lookupOut = "notfound" -> 400
                            [] lookupOut = "other" -> 500)

C5_Witness ==
  /\ endpoint = "v2" /\ pc = "done" /\ ~HasSentinel(queries)
  /\ Len(queries) = 2 /\ queries[2].dsId = NoId
  /\ lookupOut = "notfound" /\ response.status = 400

\* C6 (as claimed): every non-empty direct batch, on either endpoint, has the
\* resolver invoked exactly once.
C6_ResolverExactlyOnce ==
  (pc = "done" /\ Len(queries) > 0 /\ ~HasSentinel(queries)) => resolverCalls = 1

\* C6 (amended): for a non-empty direct batch, on either endpoint, the
\* resolver is invoked exactly once when the first sub-query carries a
\* data-source id and not at all when it does not, whatever the number of
\* sub-queries; it is never invoked twice.
C6_ResolverOnceIffFirstHasId ==
  /\ resolverCalls <= 1
  /\ (pc = "done" /\ Len(queries) > 0 /\ ~HasSentinel(queries))
       => resolverCalls = (IF queries[1].dsId # NoId THEN 1 ELSE 0)

C6_Witness ==
  /\ endpoint = "v2" /\ pc = "done" /\ ~HasSentinel(queries)
  /\ Len(queries) >= 2 /\ queries[1].dsId # queries[2].dsId /\ ~MissingId(queries)
  /\ resolverCalls = 1 /\ executorCalls = 1 /\ response.status = 200

\* C7: a batch with zero sub-queries is answered 400 on either endpoint and
\* neither resolver, executor nor evaluator is invoked.
C7_EmptyBatchIs400 ==
  Len(queries) = 0
    => /\ NoCollaboratorInvoked
       /\ pc \in {"start", "done"}
       /\ pc = "done" => response.status = 400

C7_Witness ==
  Len(queries) = 0 /\ endpoint = "legacy" /\ pc = "done" /\ response.status = 400

\* C8: for a direct batch whose backend call succeeds, the aggregate message
\* is the error of the last errored sub-result, last in the order of the
\* request's sub-queries (stated where every result answers one sub-query).
RequestRefIds == {request[p].RefId : p \in 1..Len(request)}
WellKeyed ==
  /\ Cardinality(RequestRefIds) = Len(request)
  /\ DOMAIN resp.results = RequestRefIds
ErrPositions ==
  {p \in 1..Len(request) : request[p].RefId \in DOMAIN resp.results
                           /\ resp.results[request[p].RefId].error # NoErr}
LastErrPosition == CHOOSE p \in ErrPositions : \A q \in ErrPositions : q <= p

C8_MessageOfLastInRequestOrder ==
  (pc = "done" /\ ~HasSentinel(queries) /\ backendErr = "nil" /\ WellKeyed
     /\ ErrPositions # {})
    => response.message = resp.results[request[LastErrPosition].RefId].error

\* C9: the same batch handled twice by the same endpoint against unchanged
\* collaborators yields identical envelopes: status, aggregate message and
\* per-reference-id results.
C9_SameEnvelopeTwice ==
  (pc = "done" /\ pass = 2 /\ prevEndpoint = endpoint) => response = prev

\* C10: whenever the executor or the evaluator returns without error, the
\* response status is 400 if some sub-result carries an error, else 200.
C10_StatusFromSubErrors ==
  (pc = "done" /\ backendErr = "nil")
    => response.status = (IF SomeSubError THEN 400 ELSE 200)

C10_Witness ==
  /\ endpoint = "v2" /\ pc = "done" /\ evaluatorCalls = 1 /\ backendErr = "nil"
  /\ resp.results = [k \in RefIds |-> IF k = "A"
                        THEN [error |-> "e1", errorString |-> "e1"]
                        ELSE [error |-> NoErr, errorString |-> ""]]
  /\ response.status = 400

BackendCalled == executorCalls + evaluatorCalls > 0
CalledBackend == IF evaluatorCalls > 0 THEN "evaluator" ELSE "executor"
Returned == backendOut[CalledBackend]

\* C11: on QueryMetrics the resolver is asked for the first sub-query's id
\* only, every sub-query handed to the executor carries the data source
\* resolved from it, also when the batch spans distinct ids, and the
\* expression evaluator is never invoked, sentinel or not.
C11_LegacyUsesFirstSource ==
  endpoint = "legacy"
    => /\ evaluatorCalls = 0
       /\ resolverCalls > 0 => lookupId = queries[1].dsId
       /\ sent.called
            => /\ sent.ds = queries[1].dsId
               /\ Len(sent.request) = Len(queries)
               /\ \A p \in 1..Len(sent.request) :
                    sent.request[p].DataSource = queries[1].dsId

C11_Witness ==
  /\ endpoint = "legacy" /\ pc = "done" /\ Len(queries) = 2
  /\ queries[1].dsId = 1 /\ queries[2].dsId = 2 /\ queries[2].name = DatasourceName
  /\ executorCalls = 1 /\ sent.request[2].DataSource = 1 /\ response.status = 200

\* C12: when the backend call succeeds the response holds exactly the
\* reference ids the backend returned, each result with the error it came
\* with, an errored result carrying its error text in addition and a result
\* without error left as returned.
C12_ResultsPreserved ==
  (pc = "done" /\ backendErr = "nil")
    => /\ DOMAIN response.results = DOMAIN Returned.results
       /\ \A k \in DOMAIN Returned.results :
            /\ response.results[k].error = Returned.results[k].error
            /\ response.results[k].errorString =
                 (IF Returned.results[k].error # NoErr
                  THEN Returned.results[k].error
                  ELSE Returned.results[k].errorString)

C12_Witness ==
  /\ endpoint = "legacy" /\ pc = "done" /\ backendErr = "nil"
  /\ DOMAIN Returned.results = RefIds
  /\ Returned.results["A"].error = NoErr /\ Returned.results["B"].error = "e2"
  /\ response.status = 400
  /\ response.results["B"].errorString = "e2"
  /\ response.results["A"] = Returned.results["A"]

\* C13: a fatal error of the executor or the evaluator ends the request with
\* status 500 at once: no aggregation step runs and the response carries no
\* sub-result and no aggregate message of the backend.
C13_FatalIs500 ==
  (BackendCalled /\ Returned.kind = "fatal")
    => /\ pc = "done"
       /\ response.status = 500
       /\ response.message \in {"Metric request error", "Transform request error"}
       /\ response.results = NoResults
       /\ resp = NilResp

C13_Witness ==
  /\ endpoint = "v2" /\ pc = "done" /\ evaluatorCalls = 1
  /\ Returned.kind = "fatal" /\ backendErr = "error"
  /\ response = Error(500, "Transform request error")

\* C14: every sub-query of the request being built has reference id "A" when
\* its bag omits refId, 100 when it omits maxDataPoints and 1000 when it
\* omits intervalMs, and the given value otherwise; the request handed to a
\* backend keeps one entry per sub-query, so two sub-queries that both omit
\* refId are both dispatched under the id "A".
C14_DefaultsAndCollision ==
  /\ \A p \in 1..Len(request) :
       /\ request[p].Model = queries[p]
       /\ request[p].RefId = (IF queries[p].refId = NoRef THEN "A" ELSE queries[p].refId)
       /\ request[p].MaxDataPoints =
            (IF queries[p].maxDataPoints = NoNum THEN 100 ELSE queries[p].maxDataPoints)
       /\ request[p].IntervalMs =
            (IF queries[p].intervalMs = NoNum THEN 1000 ELSE queries[p].intervalMs)
  /\ sent.called => (sent.request = request /\ Len(request) = Len(queries))

C14_Witness ==
  /\ endpoint = "v2" /\ pc = "done" /\ sent.called /\ Len(queries) = 2
  /\ queries[1].refId = NoRef /\ queries[2].refId = NoRef
  /\ queries[1].maxDataPoints = NoNum /\ queries[2].maxDataPoints = 50
  /\ queries[1].intervalMs = 500 /\ queries[2].intervalMs = NoNum
  /\ sent.request[1].RefId = "A" /\ sent.request[2].RefId = "A"
  /\ sent.request[1].MaxDataPoints = 100 /\ sent.request[2].IntervalMs = 1000

ResolutionFailed == lookupOut \in {"denied", "notfound", "other"}

\* C15: on both endpoints the executor is invoked only after a resolver
\* invocation of the same request that succeeded, it is handed the data
\* source that invocation resolved (never nil), and once a resolution has
\* failed the request is over without the executor being invoked.
C15_ExecutorAfterResolution ==
  /\ executorCalls > 0
       => /\ resolverCalls = 1
          /\ lookupOut = "ok"
          /\ sent.ds # NilDs
          /\ sent.ds = lookupId
  /\ ResolutionFailed => (executorCalls = 0 /\ pc = "done")

C15_Witness ==
  /\ endpoint = "v2" /\ pc = "done" /\ Len(queries) = 2
  /\ executorCalls = 1 /\ resolverCalls = 1 /\ lookupOut = "ok"
  /\ queries[1].dsId = 2 /\ queries[2].dsId = 1 /\ sent.ds = 2

\* C16: on QueryMetricsV2, for a batch that passes validation and
\* resolution, the evaluator is invoked iff some sub-query names the sentinel
\* and the feature is enabled, the executor iff no sub-query names the
\* sentinel; never both, and neither more than once.
C16_RoutingFollowsClassification ==
  /\ executorCalls <= 1
  /\ evaluatorCalls <= 1
  /\ executorCalls + evaluatorCalls <= 1
  /\ (endpoint = "v2" /\ pc = "done" /\ Len(queries) > 0 /\ ~MissingId(queries)
        /\ ~ResolutionFailed)
       => /\ evaluatorCalls = 1 <=> (HasSentinel(queries) /\ exprEnabled)
          /\ executorCalls = 1 <=> ~HasSentinel(queries)

C16_Witness ==
  /\ endpoint = "v2" /\ pc = "done" /\ Len(queries) = 2 /\ ~MissingId(queries)
  /\ queries[1].name = DatasourceName /\ queries[2].name = OtherName
  /\ exprEnabled /\ evaluatorCalls = 1 /\ executorCalls = 0 /\ resolverCalls = 0

\* C17: a backend is only ever handed a request with one normalized
\* sub-query per sub-query of the inbound batch, in the inbound order, and a
\* response that reports a validation or resolution failure is returned
\* with neither executor nor evaluator invoked.
FailureMessages ==
  {"No queries found in query", "Query missing data source ID",
   "Query missing datasourceId", "Access denied to data source",
   "Invalid data source ID", "Unable to load data source metadata",
   "Access denied to datasource", "Unable to load datasource meta data"}

C17_NoPartialBatch ==
  /\ sent.called
       => /\ Len(sent.request) = Len(queries)
          /\ \A p \in 1..Len(queries) : sent.request[p].Model = queries[p]
  /\ (pc = "done" /\ response.message \in FailureMessages)
       => (executorCalls = 0 /\ evaluatorCalls = 0 /\ ~sent.called)

C17_Witness ==
  /\ endpoint = "v2" /\ pc = "done" /\ Len(queries) = 2
  /\ queries[1] # queries[2]
  /\ sent.called /\ evaluatorCalls = 1
  /\ sent.request[1].Model = queries[1] /\ sent.request[2].Model = queries[2]

\* C18: in every request QueryMetricsV2 hands to a backend all sub-queries
\* carry the same data source: the one resolved from the first sub-query for
\* a direct batch, none for an expression batch, wherever the sentinel sits.
C18_OneSourcePerBatch ==
  (endpoint = "v2" /\ sent.called)
    => \A p \in 1..Len(sent.request) :
         sent.request[p].DataSource =
           (IF HasSentinel(queries) THEN NilDs ELSE queries[1].dsId)

\* C19: after aggregation, on either endpoint, the aggregate message is the
\* error text of some errored sub-result and the status 400 when a
\* sub-result carries an error; otherwise the message is the one the backend
\* returned and the status 200.
C19_MessageAndStatus ==
  (pc = "done" /\ backendErr = "nil")
    => IF \E k \in DOMAIN Returned.results : Returned.results[k].error # NoErr
       THEN /\ response.status = 400
            /\ \E k \in DOMAIN Returned.results :
                 /\ Returned.results[k].error # NoErr
                 /\ response.message = Returned.results[k].error
       ELSE /\ response.status = 200
            /\ response.message = Returned.message

C19_Witness ==
  /\ endpoint = "legacy" /\ pc = "done" /\ backendErr = "nil"
  /\ DOMAIN Returned.results = RefIds
  /\ \A k \in RefIds : Returned.results[k].error = NoErr
  /\ Returned.message = "m" /\ response.message = "m" /\ response.status = 200
====
